---- MODULE Spec2Model ----
(***************************************************************************)
(* Model of secure_signer.go: a policy-gated Ethereum transaction signer.  *)
(* One behaviour is one invocation of main(): the command-line flags and   *)
(* the policy file are fixed by Init, and every action is one statement    *)
(* group of main() in program order.                                       *)
(*                                                                         *)
(* Strings are sequences of one-character strings, so that prefix          *)
(* stripping, hex decoding, case folding and decimal parsing are computed  *)
(* as the Go code and its libraries compute them.  Byte lengths of the     *)
(* address and of the private key are scaled down (AddressLength,          *)
(* KeyLength); the decoding rules are the library's.                       *)
(***************************************************************************)
EXTENDS Integers, Sequences, FiniteSets, TLC

(***************************************************************************)
(* Bounds of the model.                                                    *)
(***************************************************************************)
\* bytes in an address (common.AddressLength is 20)
AddressLength == 2
\* bytes in a private key (32 for secp256k1)
KeyLength == 1
\* largest max_amount_wei written in a policy file of the model
MaxLimit == 2

(***************************************************************************)
(* Program constants of main().                                            *)
(***************************************************************************)
GasLimit == 21000
GasPrice == 1000000000
DefaultChainID == 1

(***************************************************************************)
(* Characters.                                                             *)
(***************************************************************************)
LowerHex == <<"0","1","2","3","4","5","6","7","8","9","a","b","c","d","e","f">>
UpperHex == <<"0","1","2","3","4","5","6","7","8","9","A","B","C","D","E","F">>
\* letters of the model's alphabet, upper case and lower case side by side
UpperLetters == <<"A","B","C","D","E","F","X","Z">>
LowerLetters == <<"a","b","c","d","e","f","x","z">>
DecDigits == <<"0","1","2","3","4","5","6","7","8","9">>

IndexOf(seq, c) == IF \E i \in 1..Len(seq) : seq[i] = c
                   THEN CHOOSE i \in 1..Len(seq) : seq[i] = c
                   ELSE 0

\* unicode.ToLower restricted to the model's alphabet
ToLowerChar(c) == IF IndexOf(UpperLetters, c) > 0
                  THEN LowerLetters[IndexOf(UpperLetters, c)]
                  ELSE c

\* encoding/hex reverseHexTable: the digit's value, 255 for a non-hex byte
HexVal(c) == IF IndexOf(LowerHex, c) > 0 THEN IndexOf(LowerHex, c) - 1
             ELSE IF IndexOf(UpperHex, c) > 0 THEN IndexOf(UpperHex, c) - 1
             ELSE 255

RECURSIVE Repeat(_, _)
Repeat(s, n) == IF n <= 0 THEN <<>> ELSE s \o Repeat(s, n - 1)

(***************************************************************************)
(* go-ethereum common: hex strings and addresses.                          *)
(***************************************************************************)
\* common.has0xPrefix: "0x" or "0X"
has0xPrefix(s) == Len(s) >= 2 /\ s[1] = "0" /\ (s[2] = "x" \/ s[2] = "X")

\* hex.DecodeString as used by common.Hex2Bytes, which drops the error:
\* the bytes decoded before the first invalid digit
DecodedPairs(s) ==
    LET bad == {i \in 1..(Len(s) \div 2) :
                    HexVal(s[2*i - 1]) > 15 \/ HexVal(s[2*i]) > 15}
    IN  IF bad = {} THEN Len(s) \div 2
        ELSE (CHOOSE i \in bad : \A j \in bad : i <= j) - 1

Hex2Bytes(s) == [i \in 1..DecodedPairs(s) |->
                    16 * HexVal(s[2*i - 1]) + HexVal(s[2*i])]

\* common.FromHex: strip the prefix, left-pad an odd string with "0", decode
FromHex(s) ==
    LET s1 == IF has0xPrefix(s) THEN SubSeq(s, 3, Len(s)) ELSE s
        s2 == IF Len(s1) % 2 = 1 THEN <<"0">> \o s1 ELSE s1
    IN  Hex2Bytes(s2)

\* common.BytesToAddress: keep the rightmost AddressLength bytes,
\* left-pad a shorter slice with zero bytes
BytesToAddress(b) ==
    LET b1  == IF Len(b) > AddressLength
               THEN SubSeq(b, Len(b) - AddressLength + 1, Len(b))
               ELSE b
        pad == AddressLength - Len(b1)
    IN  [i \in 1..AddressLength |-> IF i <= pad THEN 0 ELSE b1[i - pad]]

HexToAddress(s) == BytesToAddress(FromHex(s))

RECURSIVE SumSeq(_)
SumSeq(b) == IF b = <<>> THEN 0 ELSE Head(b) + SumSeq(Tail(b))

\* nibble i of Keccak256 over the lower-case hex of the address; the hash is
\* replaced by a fixed arithmetic mix of the address bytes
ChecksumNibble(a, i) == (7 * SumSeq(a) + 5 * i) % 16

\* Address.Hex: "0x" followed by the EIP-55 mixed-case hex of the bytes
Hex(a) ==
    LET digit(i) == IF i % 2 = 1 THEN a[(i + 1) \div 2] \div 16
                    ELSE a[i \div 2] % 16
        char(i)  == IF digit(i) > 9 /\ ChecksumNibble(a, i) > 7
                    THEN UpperHex[digit(i) + 1]
                    ELSE LowerHex[digit(i) + 1]
    IN  <<"0", "x">> \o [i \in 1..(2 * Len(a)) |-> char(i)]

(***************************************************************************)
(* Go standard library: strings, math/big.                                 *)
(***************************************************************************)
\* a plausible slip: byte-wise equality
EqualFoldExact(s, t) == s = t

\* strings.EqualFold: equal under simple case folding
EqualFold(s, t) ==
    /\ Len(s) = Len(t)
    /\ \A i \in 1..Len(s) : ToLowerChar(s[i]) = ToLowerChar(t[i])

\* strings.TrimPrefix(s, "0x")
TrimPrefix0x(s) == IF Len(s) >= 2 /\ s[1] = "0" /\ s[2] = "x"
                   THEN SubSeq(s, 3, Len(s)) ELSE s

RECURSIVE DecValue(_)
DecValue(s) == IF s = <<>> THEN 0
               ELSE 10 * DecValue(SubSeq(s, 1, Len(s) - 1))
                    + (IndexOf(DecDigits, s[Len(s)]) - 1)

\* (*big.Int).SetString(s, 10): an optional sign, then one or more decimal
\* digits and nothing else.  ok is the second result, val the number.
SetString10(s) ==
    LET signed == Len(s) >= 1 /\ (s[1] = "-" \/ s[1] = "+")
        digits == IF signed THEN SubSeq(s, 2, Len(s)) ELSE s
        ok     == /\ Len(digits) >= 1
                  /\ \A i \in 1..Len(digits) : IndexOf(DecDigits, digits[i]) > 0
        mag    == IF ok THEN DecValue(digits) ELSE 0
    IN  [ok |-> ok,
         val |-> IF signed /\ s[1] = "-" THEN 0 - mag ELSE mag]

(***************************************************************************)
(* Private key.                                                            *)
(***************************************************************************)
\* crypto.HexToECDSA: exactly KeyLength bytes of hex, and a non-zero scalar
HexToECDSA(s) ==
    LET ok == /\ Len(s) = 2 * KeyLength
              /\ \A i \in 1..Len(s) : HexVal(s[i]) <= 15
              /\ \E i \in 1..Len(s) : HexVal(s[i]) # 0
    IN  [ok |-> ok, key |-> IF ok THEN Hex2Bytes(s) ELSE <<>>]

loadPrivateKey(hexKey) == HexToECDSA(TrimPrefix0x(hexKey))

(***************************************************************************)
(* Policy: type Policy, loadPolicy, checkPolicy.                           *)
(*                                                                         *)
(* A *big.Int is <<>> for the nil pointer and <<n>> for the integer n.     *)
(* A policy file is a record: readable (os.ReadFile succeeds), wellFormed  *)
(* (the bytes are a JSON object), and the two members as written: max is   *)
(* [t, v] with t one of absent, null, int, frac, string; whitelist is      *)
(* [t, v] with t one of absent, null, array, badtype.                      *)
(***************************************************************************)
NilInt == <<>>
IsNil(p) == p = <<>>

DenyWhitelist == "recipient not in whitelist"
DenyAmount == "amount exceeds max policy limit"

\* the zero value of Policy
ZeroPolicy == [MaxAmountWei |-> NilInt, Whitelist |-> <<>>]

\* json.Unmarshal(data, &policy): a member that is absent or null leaves the
\* field at its zero value; a number that is not an integer, or a value of
\* the wrong JSON type, is an error
Unmarshal(file) ==
    LET ok == /\ file.wellFormed
              /\ file.max.t \in {"absent", "null", "int"}
              /\ file.whitelist.t \in {"absent", "null", "array"}
    IN  [ok |-> ok,
         policy |-> [MaxAmountWei |-> IF ok /\ file.max.t = "int"
                                      THEN <<file.max.v>> ELSE NilInt,
                     Whitelist    |-> IF ok /\ file.whitelist.t = "array"
                                      THEN file.whitelist.v ELSE <<>>]]

\* loadPolicy: read the file, unmarshal it, return the policy as decoded;
\* on either error the returned pointer is nil (ZeroPolicy stands for it)
loadPolicy(file) ==
    IF ~file.readable \/ ~Unmarshal(file).ok
    THEN [ok |-> FALSE, policy |-> ZeroPolicy]
    ELSE [ok |-> TRUE, policy |-> Unmarshal(file).policy]

\* the whitelist loop of checkPolicy
Whitelisted(policy, to) ==
    \E i \in 1..Len(policy.Whitelist) : EqualFold(policy.Whitelist[i], Hex(to))

\* a plausible slip: the amount is checked before the whitelist
checkPolicyAmountFirst(policy, to, amount) ==
    IF IsNil(policy.MaxAmountWei)
    THEN [panic |-> TRUE, err |-> ""]
    ELSE IF amount > policy.MaxAmountWei[1]
    THEN [panic |-> FALSE, err |-> DenyAmount]
    ELSE IF ~Whitelisted(policy, to)
    THEN [panic |-> FALSE, err |-> DenyWhitelist]
    ELSE [panic |-> FALSE, err |-> ""]

\* a plausible slip: the limit is exclusive (Cmp(...) >= 0)
checkPolicyExclusive(policy, to, amount) ==
    IF ~Whitelisted(policy, to)
    THEN [panic |-> FALSE, err |-> DenyWhitelist]
    ELSE IF IsNil(policy.MaxAmountWei)
    THEN [panic |-> TRUE, err |-> ""]
    ELSE IF amount >= policy.MaxAmountWei[1]
    THEN [panic |-> FALSE, err |-> DenyAmount]
    ELSE [panic |-> FALSE, err |-> ""]

\* a plausible slip: the comparison is reversed (Cmp(...) < 0)
checkPolicyReversed(policy, to, amount) ==
    IF ~Whitelisted(policy, to)
    THEN [panic |-> FALSE, err |-> DenyWhitelist]
    ELSE IF IsNil(policy.MaxAmountWei)
    THEN [panic |-> TRUE, err |-> ""]
    ELSE IF amount < policy.MaxAmountWei[1]
    THEN [panic |-> FALSE, err |-> DenyAmount]
    ELSE [panic |-> FALSE, err |-> ""]

\* checkPolicy returns [panic, err]: err = "" is the nil error (allow);
\* panic is the nil-pointer dereference of amount.Cmp(nil)
checkPolicy(policy, to, amount) ==
    IF ~Whitelisted(policy, to)
    THEN [panic |-> FALSE, err |-> DenyWhitelist]
    ELSE IF IsNil(policy.MaxAmountWei)
    THEN [panic |-> TRUE, err |-> ""]
    ELSE IF amount > policy.MaxAmountWei[1]
    THEN [panic |-> FALSE, err |-> DenyAmount]
    ELSE [panic |-> FALSE, err |-> ""]

(***************************************************************************)
(* Inputs of one invocation.                                               *)
(***************************************************************************)
RECURSIVE ToDec(_)
ToDec(n) == IF n < 10 THEN <<DecDigits[n + 1]>>
            ELSE ToDec(n \div 10) \o <<DecDigits[(n % 10) + 1]>>

Prefix0x == <<"0", "x">>

\* the recipient 0xabab..ab in several spellings, and other strings
ALower    == Prefix0x \o Repeat(<<"a", "b">>, AddressLength)
AUpper    == Prefix0x \o Repeat(<<"A", "B">>, AddressLength)
AMixed    == <<"0", "X">> \o Repeat(<<"a", "B">>, AddressLength)
ANoPrefix == Repeat(<<"a", "b">>, AddressLength)
BLower    == Prefix0x \o Repeat(<<"1", "c">>, AddressLength)
TooShort  == Prefix0x \o Repeat(<<"a", "b">>, AddressLength - 1)
TooLong   == Prefix0x \o <<"1", "c">> \o Repeat(<<"a", "b">>, AddressLength)
OddDigits == Prefix0x \o Tail(Repeat(<<"a", "b">>, AddressLength))
NotHex    == Prefix0x \o Repeat(<<"z", "z">>, AddressLength)
ZeroLower == Prefix0x \o Repeat(<<"0", "0">>, AddressLength)

ToAddrs == {<<>>, ALower, AUpper, AMixed, ANoPrefix, BLower,
            TooShort, TooLong, OddDigits, NotHex}

Whitelists == {<<>>, <<ALower>>, <<AUpper>>, <<ANoPrefix>>,
               <<BLower, AMixed>>, <<ZeroLower>>}

MaxMembers ==
    {[t |-> k, v |-> 0] : k \in {"absent", "null", "frac"}}
    \cup {[t |-> "int", v |-> n] : n \in (0 - 1)..MaxLimit}

WhitelistMembers ==
    {[t |-> k, v |-> <<>>] : k \in {"absent", "null", "badtype"}}
    \cup {[t |-> "array", v |-> w] : w \in Whitelists}

PolicyFiles ==
    {[readable |-> FALSE, wellFormed |-> FALSE,
      max |-> [t |-> "absent", v |-> 0], whitelist |-> [t |-> "absent", v |-> <<>>]],
     [readable |-> TRUE, wellFormed |-> FALSE,
      max |-> [t |-> "absent", v |-> 0], whitelist |-> [t |-> "absent", v |-> <<>>]]}
    \cup {[readable |-> TRUE, wellFormed |-> TRUE, max |-> m, whitelist |-> w] :
            m \in MaxMembers, w \in WhitelistMembers}

AmountStrs == {ToDec(n) : n \in 0..(MaxLimit + 1)}
              \cup {<<>>, <<"-", "1">>, <<"+", "1">>, <<"1", "x">>}

GoodKey == Repeat(<<"0", "1">>, KeyLength)
KeyStrs == {<<>>, Prefix0x \o GoodKey, GoodKey \o <<"z", "z">>}

\* -nonce and -chain as given together on the command line
NonceChains == {<<0, DefaultChainID>>, <<7, 5>>}

(***************************************************************************)
(* State.                                                                  *)
(***************************************************************************)
VARIABLES
    privKeyHex, toAddr, amountWeiStr, nonce, chainID, policyFile, \* flags
    pc,          \* the statement of main() that runs next, or a terminal
    privateKey,  \* <<>> or the key bytes
    policy,      \* the loaded policy
    amountWei,   \* *big.Int
    to,          \* common.Address
    err,         \* result of checkPolicy: <<>> before the call
    tx,          \* <<>> or <<unsigned transaction>>
    signedTx,    \* <<>> or <<signed transaction>>
    rawTxBytes,  \* <<>> or <<encoding of the signed transaction>>
    stdout,      \* lines printed by fmt.Println
    stderr,      \* messages of log.Fatal / the runtime
    exit,        \* <<>> while running, <<status>> after the process ended
    trace        \* the statements executed so far, in order

flags == <<privKeyHex, toAddr, amountWeiStr, nonce, chainID, policyFile>>
locals == <<privateKey, policy, amountWei, to, err, tx, signedTx, rawTxBytes>>
vars == <<flags, pc, locals, stdout, stderr, exit, trace>>

ZeroAddress == [i \in 1..AddressLength |-> 0]

Init ==
    /\ privKeyHex \in KeyStrs
    /\ toAddr \in ToAddrs
    /\ amountWeiStr \in AmountStrs
    /\ \E nc \in NonceChains : nonce = nc[1] /\ chainID = nc[2]
    /\ policyFile \in PolicyFiles
    /\ pc = "CheckArgs"
    /\ privateKey = <<>>
    /\ policy = ZeroPolicy
    /\ amountWei = NilInt
    /\ to = ZeroAddress
    /\ err = <<>>
    /\ tx = <<>>
    /\ signedTx = <<>>
    /\ rawTxBytes = <<>>
    /\ stdout = <<>>
    /\ stderr = <<>>
    /\ exit = <<>>
    /\ trace = <<>>

\* log.Fatal / log.Fatalf: one message, then os.Exit(1)
Fatal(stage, cause) ==
    /\ pc' = "Aborted"
    /\ stderr' = Append(stderr, [stage |-> stage, cause |-> cause])
    /\ exit' = <<1>>

\* the statement ran and main() goes on
Goto(next) ==
    /\ pc' = next
    /\ UNCHANGED <<stderr, exit>>

Step(label) ==
    /\ pc = label
    /\ trace' = Append(trace, label)
    /\ UNCHANGED flags

(***************************************************************************)
(* main(), one action per statement group.                                 *)
(***************************************************************************)
\* if privKeyHex == "" || toAddr == "" { log.Fatal(...) }
CheckArgs ==
    /\ Step("CheckArgs")
    /\ IF privKeyHex = <<>> \/ toAddr = <<>>
       THEN Fatal("key and to are required", "")
       ELSE Goto("LoadKey")
    /\ UNCHANGED <<locals, stdout>>

\* a plausible slip: the error of loadPrivateKey is not checked
LoadKeyNoExit ==
    /\ Step("LoadKey")
    /\ privateKey' = loadPrivateKey(privKeyHex).key
    /\ Goto("LoadPolicy")
    /\ UNCHANGED <<policy, amountWei, to, err, tx, signedTx, rawTxBytes, stdout>>

\* privateKey, err := loadPrivateKey(privKeyHex)
LoadKey ==
    /\ Step("LoadKey")
    /\ LET r == loadPrivateKey(privKeyHex)
       IN  IF ~r.ok
           THEN /\ Fatal("failed to load private key: ", "invalid key")
                /\ UNCHANGED privateKey
           ELSE /\ Goto("LoadPolicy")
                /\ privateKey' = r.key
    /\ UNCHANGED <<policy, amountWei, to, err, tx, signedTx, rawTxBytes, stdout>>

\* policy, err := loadPolicy(policyFile)
LoadPolicy ==
    /\ Step("LoadPolicy")
    /\ LET r == loadPolicy(policyFile)
       IN  IF ~r.ok
           THEN /\ Fatal("failed to load policy: ",
                         IF policyFile.readable THEN "json" ELSE "read")
                /\ UNCHANGED policy
           ELSE /\ Goto("ParseAmount")
                /\ policy' = r.policy
    /\ UNCHANGED <<privateKey, amountWei, to, err, tx, signedTx, rawTxBytes, stdout>>

\* amountWei, ok := new(big.Int).SetString(amountWeiStr, 10)
ParseAmount ==
    /\ Step("ParseAmount")
    /\ LET r == SetString10(amountWeiStr)
       IN  IF ~r.ok
           THEN /\ Fatal("invalid amount", "")
                /\ UNCHANGED amountWei
           ELSE /\ Goto("ParseRecipient")
                /\ amountWei' = <<r.val>>
    /\ UNCHANGED <<privateKey, policy, to, err, tx, signedTx, rawTxBytes, stdout>>

\* to := common.HexToAddress(toAddr)
ParseRecipient ==
    /\ Step("ParseRecipient")
    /\ to' = HexToAddress(toAddr)
    /\ Goto("CheckPolicy")
    /\ UNCHANGED <<privateKey, policy, amountWei, err, tx, signedTx, rawTxBytes, stdout>>

\* a plausible slip: the error of checkPolicy is logged but main() goes on
CheckPolicyStepNoExit ==
    /\ Step("CheckPolicy")
    /\ LET r == checkPolicy(policy, to, amountWei[1])
       IN  /\ err' = <<r.err>>
           /\ Goto("NewTransaction")
    /\ UNCHANGED <<privateKey, policy, amountWei, to, tx, signedTx, rawTxBytes, stdout>>

\* a plausible slip: the abort message drops the evaluator's reason
CheckPolicyStepNoReason ==
    /\ Step("CheckPolicy")
    /\ LET r == checkPolicy(policy, to, amountWei[1])
       IN  IF r.panic
           THEN /\ pc' = "Panicked"
                /\ stderr' = Append(stderr, [stage |-> "panic: ",
                                             cause |-> "nil pointer dereference"])
                /\ exit' = <<2>>
                /\ UNCHANGED err
           ELSE /\ err' = <<r.err>>
                /\ IF r.err # ""
                   THEN Fatal("policy check failed: ", "denied")
                   ELSE Goto("NewTransaction")
    /\ UNCHANGED <<privateKey, policy, amountWei, to, tx, signedTx, rawTxBytes, stdout>>

\* a plausible slip: checkPolicy lower-cases the whitelist in place
CheckPolicyStepNormalizes ==
    /\ Step("CheckPolicy")
    /\ LET r == checkPolicy(policy, to, amountWei[1])
       IN  /\ IF r.panic
              THEN /\ pc' = "Panicked"
                   /\ stderr' = Append(stderr, [stage |-> "panic: ",
                                                cause |-> "nil pointer dereference"])
                   /\ exit' = <<2>>
                   /\ UNCHANGED err
              ELSE /\ err' = <<r.err>>
                   /\ IF r.err # ""
                      THEN Fatal("policy check failed: ", r.err)
                      ELSE Goto("NewTransaction")
           /\ policy' = [policy EXCEPT !.Whitelist =
                            [i \in 1..Len(policy.Whitelist) |->
                                [j \in 1..Len(policy.Whitelist[i]) |->
                                    ToLowerChar(policy.Whitelist[i][j])]]]
    /\ UNCHANGED <<privateKey, amountWei, to, tx, signedTx, rawTxBytes, stdout>>

\* if err := checkPolicy(policy, to, amountWei); err != nil { log.Fatalf(...) }
\* A nil MaxAmountWei makes amount.Cmp panic: the runtime prints the panic
\* and the process exits with status 2.
CheckPolicyStep ==
    /\ Step("CheckPolicy")
    /\ LET r == checkPolicy(policy, to, amountWei[1])
       IN  IF r.panic
           THEN /\ pc' = "Panicked"
                /\ stderr' = Append(stderr, [stage |-> "panic: ",
                                             cause |-> "nil pointer dereference"])
                /\ exit' = <<2>>
                /\ UNCHANGED err
           ELSE /\ err' = <<r.err>>
                /\ IF r.err # ""
                   THEN Fatal("policy check failed: ", r.err)
                   ELSE Goto("NewTransaction")
    /\ UNCHANGED <<privateKey, policy, amountWei, to, tx, signedTx, rawTxBytes, stdout>>

\* a plausible slip: the transaction carries the policy limit as its value
NewTransactionMaxValue ==
    /\ Step("NewTransaction")
    /\ tx' = <<[nonce |-> nonce, to |-> to, value |-> policy.MaxAmountWei[1],
                gas |-> GasLimit, gasPrice |-> GasPrice, data |-> <<>>]>>
    /\ Goto("SignTx")
    /\ UNCHANGED <<privateKey, policy, amountWei, to, err, signedTx, rawTxBytes, stdout>>

\* tx := types.NewTransaction(nonce, to, amountWei, 21000, big.NewInt(1e9), nil)
NewTransaction ==
    /\ Step("NewTransaction")
    /\ tx' = <<[nonce |-> nonce, to |-> to, value |-> amountWei[1],
                gas |-> GasLimit, gasPrice |-> GasPrice, data |-> <<>>]>>
    /\ Goto("SignTx")
    /\ UNCHANGED <<privateKey, policy, amountWei, to, err, signedTx, rawTxBytes, stdout>>

\* a plausible slip: a failed signature is attempted once more
SignTxRetry ==
    /\ Step("SignTx")
    /\ \E ok \in BOOLEAN :
         IF ~ok
         THEN /\ IF \E i \in 1..Len(trace) : trace[i] = "SignTx"
                 THEN Fatal("failed to sign tx: ", "sign")
                 ELSE Goto("SignTx")
              /\ UNCHANGED signedTx
         ELSE /\ Goto("MarshalBinary")
              /\ signedTx' = <<[tx |-> tx[1],
                                sig |-> [key |-> privateKey, chainID |-> chainID,
                                         hash |-> tx[1]]]>>
    /\ UNCHANGED <<privateKey, policy, amountWei, to, err, tx, rawTxBytes, stdout>>

\* signer := types.LatestSignerForChainID(big.NewInt(chainID))
\* signedTx, err := types.SignTx(tx, signer, privateKey)
\* The signature primitive is external: it may fail.
SignTx ==
    /\ Step("SignTx")
    /\ \E ok \in BOOLEAN :
         IF ~ok
         THEN /\ Fatal("failed to sign tx: ", "sign")
              /\ UNCHANGED signedTx
         ELSE /\ Goto("MarshalBinary")
              /\ signedTx' = <<[tx |-> tx[1],
                                sig |-> [key |-> privateKey, chainID |-> chainID,
                                         hash |-> tx[1]]]>>
    /\ UNCHANGED <<privateKey, policy, amountWei, to, err, tx, rawTxBytes, stdout>>

\* a plausible slip: the encoding error is logged but the line is printed
MarshalBinaryNoExit ==
    /\ Step("MarshalBinary")
    /\ \E ok \in BOOLEAN :
         IF ~ok
         THEN /\ pc' = "Aborted"
              /\ stderr' = Append(stderr, [stage |-> "failed to serialize tx: ",
                                           cause |-> "rlp"])
              /\ exit' = <<1>>
              /\ stdout' = Append(stdout, [label |-> "RawTxHex:", hex |-> <<>>])
              /\ UNCHANGED rawTxBytes
         ELSE /\ Goto("Println")
              /\ rawTxBytes' = <<[rlp |-> signedTx[1]]>>
              /\ UNCHANGED stdout
    /\ UNCHANGED <<privateKey, policy, amountWei, to, err, tx, signedTx>>

\* rawTxBytes, err := signedTx.MarshalBinary()
\* The encoder is external: it may fail.
MarshalBinary ==
    /\ Step("MarshalBinary")
    /\ \E ok \in BOOLEAN :
         IF ~ok
         THEN /\ Fatal("failed to serialize tx: ", "rlp")
              /\ UNCHANGED rawTxBytes
         ELSE /\ Goto("Println")
              /\ rawTxBytes' = <<[rlp |-> signedTx[1]]>>
    /\ UNCHANGED <<privateKey, policy, amountWei, to, err, tx, signedTx, stdout>>

\* fmt.Println("RawTxHex:", hex.EncodeToString(rawTxBytes)); main returns
Println ==
    /\ Step("Println")
    /\ stdout' = Append(stdout, [label |-> "RawTxHex:", hex |-> rawTxBytes])
    /\ pc' = "Done"
    /\ exit' = <<0>>
    /\ UNCHANGED <<locals, stderr>>

Next ==
    \/ CheckArgs
    \/ LoadKey
    \/ LoadPolicy
    \/ ParseAmount
    \/ ParseRecipient
    \/ CheckPolicyStep
    \/ NewTransaction
    \/ SignTx
    \/ MarshalBinary
    \/ Println

Spec == Init /\ [][Next]_vars

Terminal == pc \in {"Done", "Aborted", "Panicked"}

(***************************************************************************)
(* Vocabulary of the properties.                                           *)
(***************************************************************************)
Ran(label) == \E i \in 1..Len(trace) : trace[i] = label

\* position of the first execution of a statement, 0 if it has not run
FirstRun(label) == IF Ran(label)
                   THEN CHOOSE i \in 1..Len(trace) :
                          /\ trace[i] = label
                          /\ \A j \in 1..(i - 1) : trace[j] # label
                   ELSE 0

LowerSeq(s) == [i \in 1..Len(s) |-> ToLowerChar(s[i])]

\* the canonical form of an address: "0x" and lower-case hex digits
LowerHexOf(a) ==
    Prefix0x \o [i \in 1..(2 * Len(a)) |->
                    IF i % 2 = 1 THEN LowerHex[(a[(i + 1) \div 2] \div 16) + 1]
                    ELSE LowerHex[(a[i \div 2] % 16) + 1]]

\* the recipient is on the whitelist: some entry, letter case aside, is the
\* canonical form of the address
InWhitelist(p, a) ==
    \E i \in 1..Len(p.Whitelist) : LowerSeq(p.Whitelist[i]) = LowerHexOf(a)

\* checkPolicy has been called and has returned
Evaluated == Ran("CheckPolicy") /\ err # <<>>

HasLimit == ~IsNil(policy.MaxAmountWei)

\* the spellings of a string that differ only in the case of hex digits
CharCases(c) == IF HexVal(c) \in 10..15
                THEN {LowerHex[HexVal(c) + 1], UpperHex[HexVal(c) + 1]}
                ELSE {c}

RECURSIVE CaseVariants(_)
CaseVariants(s) ==
    IF s = <<>> THEN {<<>>}
    ELSE {<<c>> \o r : c \in CharCases(Head(s)), r \in CaseVariants(Tail(s))}

\* the policy with whitelist entry i written as e
WithEntry(p, i, e) == [p EXCEPT !.Whitelist[i] = e]

(***************************************************************************)
(* Properties.                                                             *)
(***************************************************************************)

\* C1: the transaction is built and signed only after checkPolicy has
\* returned nil for this run's policy, recipient and amount; no transaction
\* or signature exists while the decision is Deny or not yet taken.
C1_SignOnlyAfterAllow ==
    (\/ tx # <<>>
     \/ signedTx # <<>>
     \/ Ran("NewTransaction")
     \/ Ran("SignTx")
     \/ pc \in {"NewTransaction", "SignTx"})
    => /\ err = <<"">>
       /\ InWhitelist(policy, to)
       /\ HasLimit /\ amountWei[1] <= policy.MaxAmountWei[1]
       /\ FirstRun("CheckPolicy") > 0
       /\ Ran("NewTransaction") => FirstRun("CheckPolicy") < FirstRun("NewTransaction")
       /\ Ran("SignTx") => FirstRun("CheckPolicy") < FirstRun("SignTx")

C1_Witness == signedTx # <<>> /\ err = <<"">> /\ Ran("SignTx")

\* C2: a policy source without the maximum-amount member (absent or null)
\* fails to load: the run aborts at the policy load, and neither the amount
\* nor the recipient is ever evaluated.
C2_MissingLimitFailsToLoad ==
    (/\ policyFile.readable /\ policyFile.wellFormed
     /\ policyFile.max.t \in {"absent", "null"}
     /\ Ran("LoadPolicy"))
    => /\ pc = "Aborted"
       /\ stderr[Len(stderr)].stage = "failed to load policy: "
       /\ ~Ran("CheckPolicy")

\* C3: an amount string that does not parse to a non-negative integer never
\* reaches policy evaluation, the transaction builder or the signer.
C3_NegativeAmountNeverEvaluated ==
    (\/ pc \in {"CheckPolicy", "NewTransaction", "SignTx"}
     \/ Ran("CheckPolicy") \/ Ran("NewTransaction") \/ Ran("SignTx"))
    => /\ SetString10(amountWeiStr).ok
       /\ SetString10(amountWeiStr).val >= 0
       /\ amountWei[1] >= 0

\* C4: for a recipient that matches no whitelist entry (an empty whitelist
\* included) checkPolicy returns "recipient not in whitelist" for every
\* amount, above or below the limit, and with or without a limit.
C4_NotWhitelistedDenied ==
    (Ran("CheckPolicy") /\ ~InWhitelist(policy, to))
    => /\ err = <<DenyWhitelist>>
       /\ pc = "Aborted"

C4_Witness ==
    /\ Ran("CheckPolicy") /\ ~InWhitelist(policy, to)
    /\ HasLimit /\ amountWei[1] > policy.MaxAmountWei[1]
    /\ err = <<DenyWhitelist>>

\* C5: for a whitelisted recipient and an amount not above the limit
\* checkPolicy returns nil; the limit itself is allowed.
C5_WithinLimitAllowed ==
    (/\ Ran("CheckPolicy") /\ InWhitelist(policy, to)
     /\ HasLimit /\ amountWei[1] <= policy.MaxAmountWei[1])
    => err = <<"">>

C5_Witness ==
    /\ Ran("CheckPolicy") /\ InWhitelist(policy, to)
    /\ HasLimit /\ amountWei[1] = policy.MaxAmountWei[1]
    /\ err = <<"">>

\* C6: for a whitelisted recipient and an amount above the limit
\* checkPolicy returns "amount exceeds max policy limit".
C6_AboveLimitDenied ==
    (/\ Ran("CheckPolicy") /\ InWhitelist(policy, to)
     /\ HasLimit /\ amountWei[1] > policy.MaxAmountWei[1])
    => err = <<DenyAmount>>

C6_Witness ==
    /\ Ran("CheckPolicy") /\ InWhitelist(policy, to)
    /\ HasLimit /\ amountWei[1] = policy.MaxAmountWei[1] + 1
    /\ err = <<DenyAmount>>

\* C7: recipient matching is case-insensitive: every respelling of the
\* recipient string in other letter case, and every respelling of a
\* whitelist entry in other letter case, yields the decision of this run.
C7_CaseInsensitive ==
    Ran("CheckPolicy") =>
      LET d == [panic |-> pc = "Panicked",
                err |-> IF err = <<>> THEN "" ELSE err[1]]
      IN  /\ \A s \in CaseVariants(toAddr) :
                checkPolicy(policy, HexToAddress(s), amountWei[1]) = d
          /\ \A i \in 1..Len(policy.Whitelist) :
                \A e \in CaseVariants(policy.Whitelist[i]) :
                    checkPolicy(WithEntry(policy, i, e), to, amountWei[1]) = d

\* the recipient is written in lower case, the entry in upper case, and the
\* address string of the code is in mixed case: the run is allowed
C7_Witness ==
    /\ Ran("CheckPolicy") /\ err = <<"">>
    /\ toAddr = ALower
    /\ policy.Whitelist = <<AUpper>>
    /\ Hex(to) # ALower /\ Hex(to) # AUpper

\* the statements of a complete run, in program order
FullRun == <<"CheckArgs", "LoadKey", "LoadPolicy", "ParseAmount",
             "ParseRecipient", "CheckPolicy", "NewTransaction", "SignTx",
             "MarshalBinary", "Println">>

\* the outcome of the invocation as seen from outside: nothing is printed
\* while running or on failure; the RawTxHex line is printed exactly when
\* main() returns after every stage succeeded
C8_Outcome ==
    /\ (stdout # <<>>) <=> (pc = "Done")
    /\ pc = "Done" =>
          /\ exit = <<0>> /\ stderr = <<>>
          /\ trace = FullRun
          /\ privateKey # <<>> /\ err = <<"">>
          /\ tx # <<>> /\ signedTx # <<>> /\ rawTxBytes # <<>>
          /\ rawTxBytes[1].rlp = signedTx[1]
          /\ stdout = <<[label |-> "RawTxHex:", hex |-> rawTxBytes]>>
    /\ pc \in {"Aborted", "Panicked"} =>
          /\ stdout = <<>>
          /\ exit # <<>> /\ exit[1] # 0
          /\ Len(stderr) = 1
    /\ ~Terminal => exit = <<>> /\ stderr = <<>>

\* C8: every invocation ends in exactly one terminal outcome, success or
\* failure, and there is no partial output: the RawTxHex line is emitted if
\* and only if the run completed every stage; a failed run prints no
\* transaction and exits with a non-zero status.
C8_OneOutcomeNoPartialOutput == [](C8_Outcome) /\ <>[](Terminal)

C8_Witness ==
    /\ pc = "Aborted" /\ Ran("MarshalBinary")
    /\ signedTx # <<>> /\ stdout = <<>> /\ exit = <<1>>

\* C9: a policy source whose maximum amount is negative fails to load; no
\* policy with a negative limit is returned or evaluated against.
C9_NegativeLimitFailsToLoad ==
    /\ (/\ policyFile.readable /\ policyFile.wellFormed
        /\ policyFile.max.t = "int" /\ policyFile.max.v < 0
        /\ Ran("LoadPolicy"))
       => (pc = "Aborted" /\ stderr[Len(stderr)].stage = "failed to load policy: ")
    /\ HasLimit => policy.MaxAmountWei[1] >= 0

\* C10: when checkPolicy returns an error the run aborts with a policy
\* violation that carries exactly that reason, so the whitelist denial and
\* the amount-limit denial are told apart, and nothing is signed.
C10_DenyCarriesReason ==
    (Evaluated /\ err[1] # "")
    => /\ pc = "Aborted" /\ exit = <<1>>
       /\ stderr = <<[stage |-> "policy check failed: ", cause |-> err[1]]>>
       /\ err[1] = checkPolicy(policy, to, amountWei[1]).err
       /\ stderr[1].cause = DenyWhitelist <=> ~InWhitelist(policy, to)
       /\ stderr[1].cause = DenyAmount <=>
             (InWhitelist(policy, to) /\ amountWei[1] > policy.MaxAmountWei[1])
       /\ tx = <<>> /\ signedTx = <<>> /\ stdout = <<>>
       /\ ~Ran("SignTx")

C10_Witness ==
    /\ Evaluated /\ pc = "Aborted"
    /\ stderr = <<[stage |-> "policy check failed: ", cause |-> DenyAmount]>>

(***************************************************************************)
(* The run under its scheduling: main() is one thread that never waits,    *)
(* so a statement that can run does run.                                   *)
(***************************************************************************)
FairSpec == Init /\ [][Next]_vars /\ WF_vars(Next)

(***************************************************************************)
(* The permitted path.                                                     *)
(***************************************************************************)
\* the command line and the policy file describe a permitted transfer: the
\* key decodes, the policy loads, the amount parses, and the policy as
\* loaded lists the recipient and has a limit not below the amount
Permitted ==
    /\ privKeyHex # <<>> /\ toAddr # <<>>
    /\ loadPrivateKey(privKeyHex).ok
    /\ loadPolicy(policyFile).ok
    /\ SetString10(amountWeiStr).ok
    /\ InWhitelist(loadPolicy(policyFile).policy, HexToAddress(toAddr))
    /\ ~IsNil(loadPolicy(policyFile).policy.MaxAmountWei)
    /\ SetString10(amountWeiStr).val <= loadPolicy(policyFile).policy.MaxAmountWei[1]

\* the run ended because the external signer or encoder reported an error
PrimitiveFailed ==
    /\ pc = "Aborted"
    /\ stderr[1].stage \in {"failed to sign tx: ", "failed to serialize tx: "}

\* the run returned from main() and printed a signed transaction whose
\* value is the requested amount
DoneWithValue ==
    /\ pc = "Done" /\ exit = <<0>>
    /\ Len(stdout) = 1
    /\ stdout[1].hex # <<>>
    /\ stdout[1].hex[1].rlp.sig.key = loadPrivateKey(privKeyHex).key
    /\ stdout[1].hex[1].rlp.tx.value = SetString10(amountWeiStr).val

\* C11: a permitted request (key well formed, policy loadable, recipient
\* on the whitelist in any letter case, amount parseable and not above the
\* limit, the limit itself included) eventually reaches Done and prints a
\* signed transaction whose value is the amount, unless the external sign
\* or encode primitive fails.
C11_PermittedReachesDone == Permitted ~> (DoneWithValue \/ PrimitiveFailed)

\* scenario 1: the entry is in upper case, the recipient in lower case and
\* the amount is the limit
C11_Witness ==
    /\ Permitted /\ DoneWithValue
    /\ toAddr = ALower
    /\ policy.Whitelist = <<AUpper>>
    /\ amountWei = policy.MaxAmountWei

(***************************************************************************)
(* Address strings.                                                        *)
(***************************************************************************)
\* the hex digits of an address string: the string without its prefix
Digits(s) == IF Len(s) >= 2 /\ s[1] = "0" /\ (s[2] = "x" \/ s[2] = "X")
             THEN SubSeq(s, 3, Len(s)) ELSE s

\* a well-formed address string: an optional prefix and exactly two hex
\* digits for every byte of an address
WellFormedAddr(s) ==
    /\ Len(Digits(s)) = 2 * AddressLength
    /\ \A i \in 1..Len(Digits(s)) : HexVal(Digits(s)[i]) <= 15

\* the string is a well-formed spelling of the address a
Denotes(s, a) ==
    /\ WellFormedAddr(s)
    /\ \A i \in 1..AddressLength :
          a[i] = 16 * HexVal(Digits(s)[2*i - 1]) + HexVal(Digits(s)[2*i])

\* C12: both sides of the whitelist comparison are brought to the same
\* prefixed form: an entry that denotes the recipient's address matches
\* with or without the "0x" prefix, so the recipient is not denied as
\* unlisted.
C12_PrefixInsensitive ==
    (/\ Ran("CheckPolicy")
     /\ \E i \in 1..Len(policy.Whitelist) : Denotes(policy.Whitelist[i], to))
    => err # <<DenyWhitelist>>

\* C13: policy evaluation is total: for every policy loadPolicy returns,
\* checkPolicy ends in nil or in one of its two errors; it does not crash,
\* and it does not allow when the limit is missing.
C13_EvaluationTotal ==
    Ran("CheckPolicy") =>
        /\ pc # "Panicked"
        /\ err \in {<<"">>, <<DenyWhitelist>>, <<DenyAmount>>}
        /\ ~HasLimit => err # <<"">>

(***************************************************************************)
(* Stage order.                                                            *)
(***************************************************************************)
\* the place of a statement in main(); the terminals come after all of them
Rank(label) == IF \E i \in 1..Len(FullRun) : FullRun[i] = label
               THEN CHOOSE i \in 1..Len(FullRun) : FullRun[i] = label
               ELSE Len(FullRun) + 1

\* how many times a statement has run
Count(seq, label) == Cardinality({i \in 1..Len(seq) : seq[i] = label})

\* C14: the stages are visited strictly in program order: every step leaves
\* a stage that has not run before and enters a later one, no step leaves a
\* terminal state, and the signing primitive runs at most once.
C14_StrictlySequential ==
    [][/\ ~Terminal
       /\ ~Ran(pc)
       /\ Rank(pc') > Rank(pc)
       /\ trace' = Append(trace, pc)
       /\ Count(trace', "SignTx") <= 1
       /\ \A i \in 1..Len(trace') : trace'[i] = FullRun[i]]_vars

\* the signer failed and the run ended, with one call of the signer
C14_Witness ==
    /\ pc = "Aborted" /\ Ran("SignTx")
    /\ stderr[1].stage = "failed to sign tx: "
    /\ Count(trace, "SignTx") = 1

(***************************************************************************)
(* First failure.                                                          *)
(***************************************************************************)
\* what is wrong with the inputs, stage by stage
KeyMissing    == privKeyHex = <<>>
KeyMalformed  == privKeyHex # <<>> /\ ~loadPrivateKey(privKeyHex).ok
ToMissing     == toAddr = <<>>
PolicyFails   == ~loadPolicy(policyFile).ok
AmountInvalid == ~SetString10(amountWeiStr).ok

\* the message of the abort
AbortStage == stderr[Len(stderr)].stage

KeyErrors == {"key and to are required", "failed to load private key: "}

\* C15 as stated: the abort is that of the first failing stage in the order
\* key, policy, amount: bad key material (empty or malformed) aborts with a
\* key error before the policy is loaded whatever else is invalid; a policy
\* that fails to load aborts with the policy-load error before the amount
\* is parsed; an invalid amount aborts before checkPolicy runs.
C15_FirstFailingStage ==
    Terminal =>
        /\ KeyMissing =>
              /\ pc = "Aborted" /\ AbortStage \in KeyErrors
              /\ ~Ran("LoadPolicy")
        /\ KeyMalformed =>
              /\ pc = "Aborted" /\ AbortStage = "failed to load private key: "
              /\ ~Ran("LoadPolicy")
        /\ (~KeyMissing /\ ~KeyMalformed /\ PolicyFails) =>
              /\ pc = "Aborted" /\ AbortStage = "failed to load policy: "
              /\ ~Ran("ParseAmount") /\ ~Ran("CheckPolicy")
        /\ (~KeyMissing /\ ~KeyMalformed /\ ~PolicyFails /\ AmountInvalid) =>
              /\ pc = "Aborted" /\ AbortStage = "invalid amount"
              /\ ~Ran("CheckPolicy")

\* C15, amended: the abort is that of the first failing check in program
\* order, and the first check is that of the required arguments: a missing
\* key or a missing recipient aborts with "key and to are required" before
\* the key is decoded; then a malformed key aborts with the key error
\* before the policy is loaded; then a policy that fails to load aborts
\* with the policy-load error before the amount is parsed; then an invalid
\* amount aborts before checkPolicy runs.  Nothing runs after the failure.
C15_FirstFailingCheck ==
    Terminal =>
        IF KeyMissing \/ ToMissing
        THEN /\ pc = "Aborted" /\ AbortStage = "key and to are required"
             /\ trace = SubSeq(FullRun, 1, 1)
        ELSE IF KeyMalformed
        THEN /\ pc = "Aborted" /\ AbortStage = "failed to load private key: "
             /\ trace = SubSeq(FullRun, 1, 2)
        ELSE IF PolicyFails
        THEN /\ pc = "Aborted" /\ AbortStage = "failed to load policy: "
             /\ trace = SubSeq(FullRun, 1, 3)
        ELSE IF AmountInvalid
        THEN /\ pc = "Aborted" /\ AbortStage = "invalid amount"
             /\ trace = SubSeq(FullRun, 1, 4)
        ELSE Ran("CheckPolicy")

\* the key, the policy and the amount are all invalid: the key error wins
C15_Witness ==
    /\ pc = "Aborted"
    /\ KeyMalformed /\ ~ToMissing /\ PolicyFails /\ AmountInvalid
    /\ AbortStage = "failed to load private key: "

(***************************************************************************)
(* The transaction that is built and signed.                               *)
(***************************************************************************)
\* C16: the unsigned transaction carries the nonce of the command line,
\* the recipient and the amount that checkPolicy evaluated and allowed,
\* gas limit 21000, gas price 1,000,000,000 and no data; the signature is
\* made with the loaded key for the declared chain ID over that
\* transaction, and the printed encoding is that of the signed transaction.
C16_SignedIsApproved ==
    /\ tx # <<>> =>
          /\ tx[1].nonce = nonce
          /\ tx[1].to = to /\ tx[1].to = HexToAddress(toAddr)
          /\ tx[1].value = amountWei[1]
          /\ tx[1].value = SetString10(amountWeiStr).val
          /\ tx[1].gas = 21000
          /\ tx[1].gasPrice = 1000000000
          /\ tx[1].data = <<>>
          /\ err = <<"">>
          /\ InWhitelist(policy, tx[1].to)
          /\ HasLimit /\ tx[1].value <= policy.MaxAmountWei[1]
    /\ signedTx # <<>> =>
          /\ tx # <<>>
          /\ signedTx[1].tx = tx[1]
          /\ signedTx[1].sig.hash = tx[1]
          /\ signedTx[1].sig.chainID = chainID
          /\ signedTx[1].sig.key = privateKey
    /\ rawTxBytes # <<>> => (signedTx # <<>> /\ rawTxBytes[1].rlp = signedTx[1])

\* a signed transfer below the limit, on a chain other than the default
C16_Witness ==
    /\ signedTx # <<>>
    /\ signedTx[1].tx.value < policy.MaxAmountWei[1]
    /\ signedTx[1].tx.nonce = 7
    /\ signedTx[1].sig.chainID # DefaultChainID

(***************************************************************************)
(* Frame of the evaluation.                                                *)
(***************************************************************************)
\* C17: checkPolicy has no side effects: the call leaves the policy (limit
\* and whitelist), the recipient, the amount and the command line as they
\* were, so that the decision it returned is the decision of another call
\* with the same arguments made after it.
C17_EvaluationHasNoEffect ==
    [][pc = "CheckPolicy" =>
         /\ policy' = policy /\ to' = to /\ amountWei' = amountWei
         /\ UNCHANGED flags
         /\ (pc' = "Panicked") = checkPolicy(policy', to', amountWei'[1]).panic
         /\ pc' # "Panicked" =>
               err' = <<checkPolicy(policy', to', amountWei'[1]).err>>]_vars

\* checkPolicy has returned for a whitelist written in upper case, and the
\* whitelist is still as loaded
C17_Witness ==
    /\ Evaluated
    /\ policy.Whitelist = <<AUpper>>
    /\ policy = loadPolicy(policyFile).policy

\* C18: a recipient string that is not a well-formed address (a character
\* that is not a hex digit, too few or too many digits) aborts the run
\* before policy evaluation; no address is evaluated or signed for that the
\* string does not denote.
C18_MalformedRecipientRejected ==
    (\/ pc \in {"CheckPolicy", "NewTransaction", "SignTx"}
     \/ Ran("CheckPolicy"))
    => /\ WellFormedAddr(toAddr)
       /\ Denotes(toAddr, to)

====
